---- MODULE Spec2Model ----
(***************************************************************************)
(* Model of src/app/api/lookup/route.ts: the in-memory per-client rate     *)
(* limiter (rateLimit), the lookup handler (POST) and the photo proxy      *)
(* handler (GET).                                                          *)
(*                                                                         *)
(* JavaScript values are modelled as follows.  A string-typed value that   *)
(* may be null or undefined is a TLA+ string, with "null" and "undefined"  *)
(* standing for the two absent values.  Strings whose characters the code  *)
(* inspects (the photo resource name) are sequences of characters, wrapped *)
(* in a record so that null has the same shape.  Numbers are integers,     *)
(* wrapped in a record where the code tests the type of the value.         *)
(*                                                                         *)
(* A handler runs in steps, one per awaited outbound call: a step begins   *)
(* when the call settles and runs to the next outbound call or to the      *)
(* return.  A response arrives together with its body, so the await of     *)
(* json(), text() or arrayBuffer() on it is part of the same step.  The    *)
(* fields a response carries that no branch of the code reads (coordinates,*)
(* address text, latencyMs, the pixel bounds of a photo) are left out.     *)
(***************************************************************************)
EXTENDS Integers, Sequences, FiniteSets, TLC

VARIABLES
    now,         \* the value Date.now() returns, in ms
    GOOGLE_KEY,  \* process.env.GOOGLE_MAPS_API_KEY, read once at module load
    buckets,     \* the Map<string, number[]> of the rate limiter
    rl,          \* the last value returned by rateLimit, and for whom
    calls,       \* log: for each client identifier, the time of every rateLimit call
    reqs         \* the requests: each one's position in its handler and its data

vars == <<now, GOOGLE_KEY, buckets, rl, calls, reqs>>

----------------------------------------------------------------------------
(* Program constants *)

WINDOW_MS == 60000

MAX_REQUESTS == 30

RATE_LIMIT_MSG == "Rate limit exceeded. Please try again shortly."

(* Bounds of the model *)

\* rateLimit calls explored for the busiest client identifier
MaxCalls == 32

\* rateLimit calls explored for every other client identifier
MaxOtherCalls == 1

\* clock advances explored
MaxTicks == 2

\* the amount the clock advances by: half a window
TickMs == WINDOW_MS \div 2

Null == "null"

Undefined == "undefined"

----------------------------------------------------------------------------
(* getIp: the client identifier of a request *)

\* The x-forwarded-for header is modelled already split at the commas, each
\* entry trimmed: a sequence of entries, empty when the header is absent or
\* the empty string (both falsy at line 15).  req.ip is a string or Undefined.
HeaderInputs ==
    { [xff |-> <<"a">>,      ip |-> Undefined],
      [xff |-> <<"a", "b">>, ip |-> "b"],
      [xff |-> <<>>,         ip |-> "a"],
      [xff |-> <<>>,         ip |-> Undefined] }

getIp(req) ==
    IF req.xff # <<>> THEN Head(req.xff)
    ELSE IF req.ip # Undefined THEN req.ip
    ELSE "unknown"

ClientIds == { getIp(h) : h \in HeaderInputs }

----------------------------------------------------------------------------
(* rateLimit *)

\* buckets.get(ip) ?? []
BucketGet(ip) == IF ip \in DOMAIN buckets THEN buckets[ip] ELSE <<>>

\* the filter predicate of line 23
InWindowOff(t, at) == at - t <= WINDOW_MS

InWindow(t, at) == at - t < WINDOW_MS

\* mutation: the sequence read from the map is lost, as a read made before a
\* suspension and written back after it would be
RecentLost(ip) == <<now>>

\* mutation: the filter is skipped
RecentNoFilter(ip) == Append(BucketGet(ip), now)

\* arr.filter(...) followed by recent.push(now)
Recent(ip) ==
    Append(SelectSeq(BucketGet(ip), LAMBDA t : InWindow(t, now)), now)

\* mutation: the map is replaced by one that holds the caller's entry alone
BucketsSetOnly(ip, recent) == [i \in {ip} |-> recent]

\* mutation: the timestamp of a rejected call is not stored
BucketsSetAdmitted(ip, recent) ==
    IF Len(recent) > MAX_REQUESTS THEN buckets
    ELSE [i \in DOMAIN buckets \cup {ip} |-> IF i = ip THEN recent ELSE buckets[i]]

\* buckets.set(ip, recent)
BucketsSet(ip, recent) ==
    [i \in DOMAIN buckets \cup {ip} |-> IF i = ip THEN recent ELSE buckets[i]]

\* the test of line 26
OverLimit(recent) == Len(recent) > MAX_REQUESTS

\* the value rateLimit returns
RateLimitResult(ip) == IF OverLimit(Recent(ip)) THEN RATE_LIMIT_MSG ELSE Null

\* Bound on the exploration: a client that names itself may call up to
\* MaxCalls times, the one that does not up to MaxOtherCalls times.
CanCall(ip) ==
    Len(calls[ip]) < (IF ip = "unknown" THEN MaxOtherCalls ELSE MaxCalls)

\* The effect of one call rateLimit(req) on the limiter's state
rateLimit(ip) ==
    /\ buckets' = BucketsSet(ip, Recent(ip))
    /\ rl' = [ip |-> ip, at |-> now, ret |-> RateLimitResult(ip)]
    /\ calls' = [calls EXCEPT ![ip] = Append(@, now)]

\* mutation: the photo proxy admits every call and keeps no record of it
LimitedPostOnly(kind, ip) ==
    IF kind = "POST" THEN rateLimit(ip)
    ELSE /\ rl' = [ip |-> ip, at |-> now, ret |-> Null]
         /\ UNCHANGED <<buckets, calls>>

\* lines 107 and 191: const rl = rateLimit(req), the first statement of both
\* handlers, on the one module-level map
Limited(kind, ip) == rateLimit(ip)

----------------------------------------------------------------------------
(* JavaScript values the handlers inspect *)

\* a value where the code expects a string whose characters it reads
Str(s) == [t |-> "string", s |-> s]

NullStr == [t |-> "null", s |-> <<>>]

UndefStr == [t |-> "undefined", s |-> <<>>]

NotAStr == [t |-> "number", s |-> <<>>]

\* a value where the code expects a number: n / d, or undefined, or a string
Num(n, d) == [t |-> "number", n |-> n, d |-> d]

UndefNum == [t |-> "undefined", n |-> 0, d |-> 1]

NotANum == [t |-> "string", n |-> 0, d |-> 1]

\* JavaScript truthiness of a string-typed value: !v is its negation
Truthy(v) == v \notin {Null, Undefined, ""}

\* Response.ok
Ok(status) == status >= 200 /\ status <= 299

----------------------------------------------------------------------------
(* BodySchema *)

RECURSIVE TrimStart(_)
TrimStart(s) == IF s # <<>> /\ Head(s) = " " THEN TrimStart(Tail(s)) ELSE s

RECURSIVE TrimEnd(_)
TrimEnd(s) ==
    IF s # <<>> /\ s[Len(s)] = " " THEN TrimEnd(SubSeq(s, 1, Len(s) - 1)) ELSE s

\* String.prototype.trim, for the one whitespace character of the inputs
Trim(s) == TrimEnd(TrimStart(s))

\* mutation: the address is not trimmed before its length is checked
AddressOkNoTrim(a) == a.t = "string" /\ Len(a.s) >= 1

\* z.string().trim().min(1)
AddressOk(a) == a.t = "string" /\ Len(Trim(a.s)) >= 1

\* z.number().int().min(0).optional()
SelectedIndexOk(v) ==
    \/ v.t = "undefined"
    \/ v.t = "number" /\ v.n % v.d = 0 /\ v.n \div v.d >= 0

\* BodySchema.safeParse(body).success
SafeParseSuccess(body) ==
    /\ body.json = "object"
    /\ AddressOk(body.address)
    /\ SelectedIndexOk(body.selectedIndex)

\* parsed.error.flatten(): which fields are in error
FlattenError(body) ==
    IF body.json # "object" THEN "formErrors"
    ELSE IF ~AddressOk(body.address) /\ ~SelectedIndexOk(body.selectedIndex)
         THEN "fieldErrors: address, selectedIndex"
    ELSE IF ~AddressOk(body.address) THEN "fieldErrors: address"
    ELSE "fieldErrors: selectedIndex"

----------------------------------------------------------------------------
(* Inputs of the handlers *)

\* geocode matches mapped to candidates per request
MaxCands == 2

ADDRESS == <<" ", "x", " ">>

\* Request bodies: json is "invalid" when req.json() rejects, "other" when the
\* JSON is not an object, "object" otherwise.
Body(j, a, i) == [json |-> j, address |-> a, selectedIndex |-> i]

BodyInputs ==
    { Body("invalid", UndefStr, UndefNum),
      Body("other", UndefStr, UndefNum),
      Body("object", UndefStr, UndefNum),
      Body("object", NotAStr, Num(0, 1)),
      Body("object", Str(<<>>), UndefNum),
      Body("object", Str(<<" ", " ">>), Num(1, 1)),
      Body("object", Str(<<" ">>), Num(-1, 1)),
      Body("object", Str(ADDRESS), Num(-1, 1)),
      Body("object", Str(ADDRESS), Num(3, 2)),
      Body("object", Str(ADDRESS), NotANum),
      Body("object", Str(ADDRESS), UndefNum) }
    \cup { Body("object", Str(ADDRESS), Num(i, 1)) : i \in 0..MaxCands }

\* the place_id of one geocoding result: absent or an identifier (an empty
\* one is among GeoDataInputs)
PlaceIds == {Undefined, "ChIJ"}

RECURSIVE SeqsUpTo(_, _)
SeqsUpTo(S, n) ==
    IF n = 0 THEN {<<>>}
    ELSE LET shorter == SeqsUpTo(S, n - 1)
         IN shorter \cup { Append(q, x) : q \in shorter, x \in S }

\* one element of geoData.results: an object with its place_id, or null
Res(p) == [isNull |-> FALSE, place_id |-> p]

NullRes == [isNull |-> TRUE, place_id |-> Undefined]

\* The geocoding call.  kind and status are what fetch settles with ("reject"
\* when it rejects); json, isArray and results are what geoRes.json() settles
\* with afterwards: json is "reject" when the body is not JSON, "null" when
\* it is the JSON value null, "value" otherwise, with geoData.results an
\* array or not.
Geo(k, st) ==
    [kind |-> k, status |-> st, json |-> "none", isArray |-> FALSE, results |-> <<>>]

GeoData(j, arr, res) == [json |-> j, isArray |-> arr, results |-> res]

NoGeo == Geo("none", 0)

GeoInputs ==
    { Geo("reject", 0), Geo("response", 403), Geo("response", 500),
      Geo("response", 200) }

GeoDataInputs ==
    { GeoData("reject", FALSE, <<>>),
      GeoData("null", FALSE, <<>>),
      GeoData("value", FALSE, <<>>),
      GeoData("value", TRUE, <<NullRes>>),
      GeoData("value", TRUE, <<Res("ChIJ"), NullRes>>),
      GeoData("value", TRUE, <<Res("")>>) }
    \cup { GeoData("value", TRUE, res) :
             res \in SeqsUpTo({ Res(p) : p \in PlaceIds }, MaxCands) }

\* the JSON value of a place-details body that is an object
PLACE == "{ id: ChIJ }"

\* The place-details call.  kind, status and message are what fetch settles
\* with (message: that of the error it rejects with, which may be undefined);
\* body is what the read of the body settles with afterwards: for
\* resp.text() "text" with the text, or "reject"; for resp.json() "json" with
\* the value, Null or an object, or "reject" with the error's message.
Det(k, st, msg) ==
    [kind |-> k, status |-> st, message |-> msg,
     body |-> "none", text |-> "", value |-> Null]

DetBody(b, txt, v, msg) == [body |-> b, text |-> txt, value |-> v, message |-> msg]

NoDet == Det("none", 0, Undefined)

DetInputs ==
    { Det("response", 200, Undefined),
      Det("response", 404, Undefined),
      Det("response", 500, Undefined),
      Det("reject", 0, "fetch failed"),
      Det("reject", 0, Undefined) }

DetTextInputs ==
    { DetBody("text", "backend error", Null, Undefined),
      DetBody("reject", "", Null, "terminated") }

DetJsonInputs ==
    { DetBody("json", "", PLACE, Undefined),
      DetBody("json", "", Null, Undefined),
      DetBody("reject", "", Null, "Unexpected end of JSON input") }

PLACES_PREFIX == <<"p", "l", "a", "c", "e", "s", "/">>

\* the query parameters photoName, name and photoRef of a photo request
Query(a, b, c) == [photoName |-> a, name |-> b, photoRef |-> c]

QueryInputs ==
    { Query(NullStr, NullStr, NullStr),
      Query(Str(<<>>), Str(PLACES_PREFIX \o <<"x">>), NullStr),
      Query(Str(<<"n", "o", "t">> \o PLACES_PREFIX \o <<"a", "b", "c">>), NullStr, NullStr),
      Query(NullStr, Str(<<"p", "l", "a", "c", "e", "s">>), Str(PLACES_PREFIX \o <<"x">>)),
      Query(NullStr, NullStr, Str(<<"P">> \o Tail(PLACES_PREFIX) \o <<"x">>)),
      Query(Str(PLACES_PREFIX \o <<"x">>), NullStr, NullStr),
      Query(NullStr, Str(PLACES_PREFIX), NullStr),
      Query(NullStr, NullStr, Str(PLACES_PREFIX \o <<"x">>)) }

\* content types, as the characters the code searches
APPLICATION_JSON ==
    <<"a", "p", "p", "l", "i", "c", "a", "t", "i", "o", "n", "/", "j", "s", "o", "n">>

JSON_UTF8 ==
    APPLICATION_JSON \o <<";", "c", "h", "a", "r", "s", "e", "t", "=", "u", "t", "f", "-", "8">>

JSON_SEQ == APPLICATION_JSON \o <<"-", "s", "e", "q">>

JSON_UPPER == <<"A">> \o Tail(APPLICATION_JSON)

IMAGE_PNG == <<"i", "m", "a", "g", "e", "/", "p", "n", "g">>

IMAGE_WEBP == <<"i", "m", "a", "g", "e", "/", "w", "e", "b", "p">>

IMAGE_JPEG == <<"i", "m", "a", "g", "e", "/", "j", "p", "e", "g">>

TEXT_HTML == <<"t", "e", "x", "t", "/", "h", "t", "m", "l">>

MEDIA_URL == "https://lh3.googleusercontent.com/p"

\* The photo-media call.  kind, status, ctype (the content-type header, or
\* null) and location (that header, or Null) are what fetch settles with;
\* body is what the read of the body settles with afterwards: for resp.json()
\* "json" with data?.photoUri, "null" for the JSON value null, or "reject";
\* for resp.arrayBuffer() "bytes" or "reject".
Photo(k, st, ct, loc) ==
    [kind |-> k, status |-> st, ctype |-> ct, location |-> loc,
     body |-> "none", photoUri |-> Undefined]

PhotoBody(b, uri) == [body |-> b, photoUri |-> uri]

NoPhoto == Photo("none", 0, NullStr, Null)

PhotoInputs ==
    { Photo("reject", 0, NullStr, Null),
      Photo("response", 200, Str(APPLICATION_JSON), Null),
      Photo("response", 200, Str(JSON_UTF8), Null),
      Photo("response", 201, Str(JSON_SEQ), MEDIA_URL),
      Photo("response", 200, Str(JSON_UPPER), Null),
      Photo("response", 302, NullStr, MEDIA_URL),
      Photo("response", 302, Str(APPLICATION_JSON), Null),
      Photo("response", 304, Str(IMAGE_PNG), ""),
      Photo("response", 200, Str(IMAGE_PNG), Null),
      Photo("response", 200, NullStr, MEDIA_URL),
      Photo("response", 404, Str(APPLICATION_JSON), Null),
      Photo("response", 500, Str(IMAGE_PNG), Null) }

PhotoJsonInputs ==
    { PhotoBody("reject", Undefined),
      PhotoBody("null", Undefined),
      PhotoBody("json", Undefined),
      PhotoBody("json", ""),
      PhotoBody("json", MEDIA_URL) }

\* what resp.arrayBuffer() and mediaResp.arrayBuffer() settle with
BytesInputs == {"bytes", "reject"}

\* The secondary fetch: what fetch settles with, then (body) what
\* mediaResp.arrayBuffer() settles with
Media(k, st, ct) == [kind |-> k, status |-> st, ctype |-> ct, body |-> "none"]

NoMedia == Media("none", 0, NullStr)

MediaInputs ==
    { Media("reject", 0, NullStr),
      Media("response", 200, Str(IMAGE_WEBP)),
      Media("response", 200, NullStr),
      Media("response", 403, Str(TEXT_HTML)) }

----------------------------------------------------------------------------
(* Responses *)

CACHE_CONTROL == "public, max-age=86400"

W_NO_MATCH == "No match found."

W_MULTIPLE == "Multiple matches found; showing best match."

W_NO_PLACE_ID == "No place_id from geocoding; place details not available."

W_SOURCE == "Places details returned from Places API (New); attribute availability varies by place."

\* status 0: the handler has returned no response
NoResp ==
    [status |-> 0, error |-> Null,
     candidates |-> <<>>, selectedIndex |-> 0, place |-> Null, warnings |-> <<>>,
     contentType |-> NullStr, cacheControl |-> Null, bytes |-> Null]

\* NextResponse.json({ error }, { status }) and new NextResponse(text, { status })
ErrorResp(status, error) == [NoResp EXCEPT !.status = status, !.error = error]

\* NextResponse.json({ geocode: {...}, place, warnings }) of lines 144-151, 181-186
LookupResp(candidates, idx, place, warnings) ==
    [NoResp EXCEPT !.status = 200, !.candidates = candidates,
                   !.selectedIndex = idx, !.place = place, !.warnings = warnings]

\* mutation: the cache directive is left off
ImageRespNoCache(contentType, bytes) ==
    [NoResp EXCEPT !.status = 200, !.contentType = contentType, !.bytes = bytes]

\* new NextResponse(Buffer.from(arrayBuffer), { status: 200, headers })
ImageResp(contentType, bytes) ==
    [NoResp EXCEPT !.status = 200, !.contentType = contentType,
                   !.cacheControl = CACHE_CONTROL, !.bytes = bytes]

----------------------------------------------------------------------------
(* Requests *)

ReqIds == {"r1"}

\* A request: where its handler stands (pc), the time and the result of its
\* rateLimit call (at, rl), what it has read (body, query, geo, det, photo,
\* media), its locals, the outbound calls it has made and the response it
\* returned.
NewReq(kind, ip, ret) ==
    [kind |-> kind, pc |-> "start", ip |-> ip, at |-> now, rl |-> ret,
     body |-> Body("none", UndefStr, UndefNum),
     query |-> Query(NullStr, NullStr, NullStr), photoName |-> NullStr,
     geo |-> NoGeo, det |-> NoDet, photo |-> NoPhoto, media |-> NoMedia,
     candidates |-> <<>>, idx |-> 0, warnings |-> <<>>, mediaUrl |-> Null,
     geocodeCalls |-> 0, detailsCalls |-> 0, photoCalls |-> 0, mediaCalls |-> 0,
     resp |-> NoResp]

IdleReq == [NewReq("none", "unknown", Null) EXCEPT !.pc = "idle"]

\* the handler returns a response
Return(q, resp) == [q EXCEPT !.pc = "done", !.resp = resp]

\* the handler's promise rejects: an awaited call rejected outside any try
Throw(q) == [q EXCEPT !.pc = "threw"]

Free(r) == reqs[r].pc \in {"idle", "done", "threw"}

----------------------------------------------------------------------------
(* State after module load *)

Init ==
    /\ now = 0
    /\ GOOGLE_KEY \in {"key", "", Undefined}
    /\ buckets = <<>>
    /\ rl = [ip |-> "unknown", at |-> 0, ret |-> Null]
    /\ calls = [i \in ClientIds |-> <<>>]
    /\ reqs = [r \in ReqIds |-> IdleReq]

\* The clock advances
Tick ==
    /\ now + TickMs <= MaxTicks * TickMs
    /\ now' = now + TickMs
    /\ UNCHANGED <<GOOGLE_KEY, buckets, rl, calls, reqs>>

\* One call of rateLimit, for a request with the given headers
RateLimitCall(hdr) ==
    /\ CanCall(getIp(hdr))
    /\ rateLimit(getIp(hdr))
    /\ UNCHANGED <<now, GOOGLE_KEY, reqs>>

----------------------------------------------------------------------------
(* POST: the lookup handler *)

\* one element of geoData.results.map(...): r.place_id ?? null
MapCandidate(res) ==
    [place_id |-> IF res.place_id = Undefined THEN Null ELSE res.place_id]

Candidates(results) == [i \in 1..Len(results) |-> MapCandidate(results[i])]

\* geoData.results.map(...) throws: an element is null, and r.formatted_address
\* is read of it
MapThrows(results) == \E i \in 1..Len(results) : results[i].isNull

\* mutation: an index past the end is clamped to the last candidate
SelectIdxClamped(sel, n) ==
    IF sel.t = "number" /\ sel.n \div sel.d >= 0
    THEN (IF sel.n \div sel.d < n THEN sel.n \div sel.d ELSE n - 1)
    ELSE 0

\* line 164: the zero-based index of the chosen candidate among n
SelectIdx(sel, n) ==
    IF sel.t = "number" /\ sel.n \div sel.d >= 0 /\ sel.n \div sel.d < n
    THEN sel.n \div sel.d
    ELSE 0

\* mutation: any response of the place-details call is taken as a success
DetailsOkAnyResponse(det) == det.kind = "response"

\* line 98: resp.ok, once the fetch of line 91 has resolved
DetailsOk(det) == det.kind = "response" /\ Ok(det.status)

\* fetchPlaceDetailsNew resolves: the response is ok and its body is JSON
DetailsResolved(det) == DetailsOk(det) /\ det.body = "json"

\* the message of the error fetchPlaceDetailsNew rejects with: that of fetch
\* or of resp.json(), or the one built at line 100 from the status and the
\* text ('' when resp.text() rejects)
DetailsErrorMessage(det) ==
    IF det.kind = "reject" \/ DetailsOk(det) THEN det.message
    ELSE "Places v1 details failed with status " \o ToString(det.status)
         \o (IF det.text # "" THEN ": " \o det.text ELSE "")

\* e?.message ?? 'Place details fetch failed'
CatchWarning(det) ==
    IF DetailsErrorMessage(det) \in {Undefined, Null}
    THEN "Place details fetch failed"
    ELSE DetailsErrorMessage(det)

\* mutation: only a server error of the geocoding call is taken as a failure
GeoFailedServerOnly(geo) == geo.status >= 500

\* line 138: !geoRes.ok
GeoFailed(geo) == ~Ok(geo.status)

\* mutation: no match is answered as an error
NoMatchRespNotFound == ErrorResp(404, W_NO_MATCH)

\* lines 144-151: the response when geocoding matches nothing
NoMatchResp == LookupResp(<<>>, 0, Null, <<W_NO_MATCH>>)

\* lines 166 and 173: place is null unless fetchPlaceDetailsNew resolved, and
\* then the value resp.json() gave, which may be null
PlaceOf(det) == IF DetailsResolved(det) THEN det.value ELSE Null

\* mutation: a single match is announced as multiple matches too
MultipleWarningsFromOne(candidates) ==
    IF Len(candidates) >= 1 THEN <<W_MULTIPLE>> ELSE <<>>

\* line 162: the warnings after the candidates are built
MultipleWarnings(candidates) ==
    IF Len(candidates) > 1 THEN <<W_MULTIPLE>> ELSE <<>>

\* mutation: the place_id of the best match is tested, not that of the choice
ChosenHasPlaceIdOfFirst(candidates, idx) == Truthy(candidates[1].place_id)

\* lines 167-168: chosen = candidates[idx]; chosen.place_id is truthy
ChosenHasPlaceId(candidates, idx) == Truthy(candidates[idx + 1].place_id)

\* lines 174 and 176: the warning pushed once fetchPlaceDetailsNew settles
DetailsWarnings(warnings, det) ==
    Append(warnings, IF DetailsResolved(det) THEN W_SOURCE ELSE CatchWarning(det))

\* mutation: a call is made again when its first attempt has been made
CalledWithRetry(n) == n + 2

\* lines 91, 137, 215, 227, 244: one more fetch of an upstream
Called(n) == n + 1

\* lines 113 and 193: the body of the 500 of each handler
NotConfigured(kind) ==
    IF kind = "POST" THEN "Server is not configured with GOOGLE_MAPS_API_KEY"
    ELSE "Server not configured"

\* mutation: the handler goes on to its next gate after a rejection
AfterRateLimitNoGate(q, onward) ==
    IF ~Truthy(GOOGLE_KEY)
    THEN Return(q, ErrorResp(500, NotConfigured(q.kind)))
    ELSE onward

\* lines 107-114 and 191-193: the rate-limit gate, then the credential gate
AfterRateLimit(q, onward) ==
    IF q.rl # Null THEN Return(q, ErrorResp(429, q.rl))
    ELSE IF ~Truthy(GOOGLE_KEY)
    THEN Return(q, ErrorResp(500, NotConfigured(q.kind)))
    ELSE onward

\* lines 106-118: up to the await of req.json()
PostStart(r, hdr) ==
    /\ Free(r)
    /\ CanCall(getIp(hdr))
    /\ Limited("POST", getIp(hdr))
    /\ LET q == NewReq("POST", getIp(hdr), RateLimitResult(getIp(hdr)))
       IN reqs' = [reqs EXCEPT ![r] = AfterRateLimit(q, [q EXCEPT !.pc = "json"])]
    /\ UNCHANGED <<now, GOOGLE_KEY>>

\* lines 118-137: the body is read and validated, the geocoding call is made
PostBody(r, body) ==
    /\ reqs[r].kind = "POST" /\ reqs[r].pc = "json"
    /\ LET q == [reqs[r] EXCEPT !.body = body]
       IN reqs' = [reqs EXCEPT ![r] =
            IF body.json = "invalid"
            THEN Return(q, ErrorResp(400, "Invalid JSON body"))
            ELSE IF ~SafeParseSuccess(body)
            THEN Return(q, ErrorResp(400, FlattenError(body)))
            ELSE [q EXCEPT !.pc = "geocode", !.geocodeCalls = Called(@)]]
    /\ UNCHANGED <<now, GOOGLE_KEY, buckets, rl, calls>>

\* lines 137-141: the fetch of the geocoding call settles; a success is
\* followed by the await of geoRes.json()
PostGeocode(r, geo) ==
    /\ reqs[r].kind = "POST" /\ reqs[r].pc = "geocode"
    /\ LET q == [reqs[r] EXCEPT !.geo = geo]
       IN reqs' = [reqs EXCEPT ![r] =
            IF geo.kind = "reject" THEN Throw(q)
            ELSE IF GeoFailed(geo)
            THEN Return(q, ErrorResp(502,
                     "Geocoding failed with status " \o ToString(geo.status)))
            ELSE [q EXCEPT !.pc = "geojson"]]
    /\ UNCHANGED <<now, GOOGLE_KEY, buckets, rl, calls>>

\* lines 141-173 and 91: geoRes.json() settles, the candidates are mapped, one
\* is chosen and, when it has a place_id, the place-details fetch is made
PostGeocodeJson(r, data) ==
    /\ reqs[r].kind = "POST" /\ reqs[r].pc = "geojson"
    /\ LET q == [reqs[r] EXCEPT !.geo.json = data.json,
                                !.geo.isArray = data.isArray,
                                !.geo.results = data.results]
           candidates == Candidates(data.results)
           warnings == MultipleWarnings(candidates)
           idx == SelectIdx(q.body.selectedIndex, Len(candidates))
       IN reqs' = [reqs EXCEPT ![r] =
            IF data.json \in {"reject", "null"} THEN Throw(q)
            ELSE IF ~data.isArray \/ Len(data.results) = 0
            THEN Return(q, NoMatchResp)
            ELSE IF MapThrows(data.results) THEN Throw(q)
            ELSE IF ~ChosenHasPlaceId(candidates, idx)
            THEN Return([q EXCEPT !.candidates = candidates, !.idx = idx,
                                  !.warnings = Append(warnings, W_NO_PLACE_ID)],
                        LookupResp(candidates, idx, Null,
                                   Append(warnings, W_NO_PLACE_ID)))
            ELSE [q EXCEPT !.pc = "details", !.candidates = candidates,
                           !.idx = idx, !.warnings = warnings,
                           !.detailsCalls = Called(@)]]
    /\ UNCHANGED <<now, GOOGLE_KEY, buckets, rl, calls>>

\* lines 173-186: fetchPlaceDetailsNew has settled and the response is built
DetailsDone(q) ==
    LET warnings == DetailsWarnings(q.warnings, q.det)
    IN Return([q EXCEPT !.warnings = warnings],
              LookupResp(q.candidates, q.idx, PlaceOf(q.det), warnings))

\* lines 91-103: the fetch of fetchPlaceDetailsNew settles; a response is
\* followed by the await of resp.text() or of resp.json()
PostDetails(r, det) ==
    /\ reqs[r].kind = "POST" /\ reqs[r].pc = "details"
    /\ LET q == [reqs[r] EXCEPT !.det = det]
       IN reqs' = [reqs EXCEPT ![r] =
            IF det.kind = "reject" THEN DetailsDone(q)
            ELSE IF ~DetailsOk(det) THEN [q EXCEPT !.pc = "dettext"]
            ELSE [q EXCEPT !.pc = "detjson"]]
    /\ UNCHANGED <<now, GOOGLE_KEY, buckets, rl, calls>>

\* lines 99-100 and 175-186: resp.text().catch(() => '') settles, the error
\* is thrown and caught
PostDetailsText(r, body) ==
    /\ reqs[r].kind = "POST" /\ reqs[r].pc = "dettext"
    /\ LET q == [reqs[r] EXCEPT !.det.body = body.body,
                                !.det.text = IF body.body = "reject" THEN ""
                                             ELSE body.text]
       IN reqs' = [reqs EXCEPT ![r] = DetailsDone(q)]
    /\ UNCHANGED <<now, GOOGLE_KEY, buckets, rl, calls>>

\* lines 103 and 173-186: resp.json() settles
PostDetailsJson(r, body) ==
    /\ reqs[r].kind = "POST" /\ reqs[r].pc = "detjson"
    /\ LET q == [reqs[r] EXCEPT !.det.body = body.body,
                                !.det.value = body.value,
                                !.det.message = body.message]
       IN reqs' = [reqs EXCEPT ![r] = DetailsDone(q)]
    /\ UNCHANGED <<now, GOOGLE_KEY, buckets, rl, calls>>

----------------------------------------------------------------------------
(* GET: the photo proxy handler *)

\* a ?? b ?? c over searchParams.get results
Coalesce(query) ==
    IF query.photoName.t # "null" THEN query.photoName
    ELSE IF query.name.t # "null" THEN query.name
    ELSE query.photoRef

\* mutation: the prefix may occur anywhere in the name
StartsWithAnywhere(s, prefix) ==
    \E i \in 1..Len(s) :
        /\ i + Len(prefix) - 1 <= Len(s)
        /\ SubSeq(s, i, i + Len(prefix) - 1) = prefix

\* String.prototype.startsWith
StartsWith(s, prefix) ==
    Len(s) >= Len(prefix) /\ SubSeq(s, 1, Len(prefix)) = prefix

\* String.prototype.includes
Includes(s, sub) ==
    \E i \in 0..(Len(s) - Len(sub)) : SubSeq(s, i + 1, i + Len(sub)) = sub

\* (resp.headers.get('content-type') ?? '').includes('application/json')
IsJson(ctype) ==
    Includes(IF ctype.t = "null" THEN <<>> ELSE ctype.s, APPLICATION_JSON)

\* header ?? 'image/jpeg'
ContentType(ctype) == IF ctype.t = "null" THEN Str(IMAGE_JPEG) ELSE ctype

\* lines 223, 241, 257: which protocol the photo-media response follows
PhotoClass(photo) ==
    IF Ok(photo.status) /\ IsJson(photo.ctype) THEN "json"
    ELSE IF photo.status >= 300 /\ photo.status < 400 THEN "redirect"
    ELSE IF ~Ok(photo.status) THEN "failure"
    ELSE "binary"

\* lines 190-220: the gates, the resource name check, the photo-media call
GetStart(r, hdr, query) ==
    /\ Free(r)
    /\ CanCall(getIp(hdr))
    /\ Limited("GET", getIp(hdr))
    /\ LET q0 == [NewReq("GET", getIp(hdr), RateLimitResult(getIp(hdr)))
                    EXCEPT !.query = query]
           photoName == Coalesce(query)
           q == [q0 EXCEPT !.photoName = photoName]
       IN reqs' = [reqs EXCEPT ![r] =
            AfterRateLimit(q0,
                IF photoName.t = "null" \/ photoName.s = <<>>
                THEN Return(q, ErrorResp(400, "photoName required"))
                ELSE IF ~StartsWith(photoName.s, PLACES_PREFIX)
                THEN Return(q, ErrorResp(400,
                    "photoName must be a full Places photo resource name (starts with \"places/\")"))
                ELSE [q EXCEPT !.pc = "photo", !.photoCalls = Called(@)])]
    /\ UNCHANGED <<now, GOOGLE_KEY>>

\* lines 215-260: the fetch of the photo-media call settles and its response
\* is classified; a JSON answer is followed by the await of resp.json(), an
\* image by the await of resp.arrayBuffer(), a redirect by the second fetch
GetPhoto(r, photo) ==
    /\ reqs[r].kind = "GET" /\ reqs[r].pc = "photo"
    /\ LET q == [reqs[r] EXCEPT !.photo = photo]
       IN reqs' = [reqs EXCEPT ![r] =
            IF photo.kind = "reject" THEN Throw(q)
            ELSE IF PhotoClass(photo) = "json"
            THEN [q EXCEPT !.pc = "photojson"]
            ELSE IF PhotoClass(photo) = "redirect"
            THEN (IF ~Truthy(photo.location)
                  THEN Return(q, ErrorResp(502, "Failed to fetch photo"))
                  ELSE [q EXCEPT !.pc = "media", !.mediaUrl = photo.location,
                                 !.mediaCalls = Called(@)])
            ELSE IF PhotoClass(photo) = "failure"
            THEN Return(q, ErrorResp(502, "Failed to fetch photo"))
            ELSE [q EXCEPT !.pc = "photobytes"]]
    /\ UNCHANGED <<now, GOOGLE_KEY, buckets, rl, calls>>

\* lines 224-227: resp.json().catch(() => null) settles; data?.photoUri is
\* fetched when it is truthy
GetPhotoJson(r, data) ==
    /\ reqs[r].kind = "GET" /\ reqs[r].pc = "photojson"
    /\ LET q == [reqs[r] EXCEPT !.photo.body = data.body,
                                !.photo.photoUri = data.photoUri]
           mediaUrl == IF data.body = "json" THEN data.photoUri ELSE Undefined
       IN reqs' = [reqs EXCEPT ![r] =
            IF ~Truthy(mediaUrl)
            THEN Return(q, ErrorResp(502, "Failed to resolve photo media URL"))
            ELSE [q EXCEPT !.pc = "media", !.mediaUrl = mediaUrl,
                           !.mediaCalls = Called(@)]]
    /\ UNCHANGED <<now, GOOGLE_KEY, buckets, rl, calls>>

\* lines 259-267: resp.arrayBuffer() settles
GetPhotoBytes(r, body) ==
    /\ reqs[r].kind = "GET" /\ reqs[r].pc = "photobytes"
    /\ LET q == [reqs[r] EXCEPT !.photo.body = body]
       IN reqs' = [reqs EXCEPT ![r] =
            IF body = "reject" THEN Throw(q)
            ELSE Return(q, ImageResp(ContentType(q.photo.ctype), "upstream body"))]
    /\ UNCHANGED <<now, GOOGLE_KEY, buckets, rl, calls>>

\* lines 227-230 and 244-247: the secondary fetch settles; a success is
\* followed by the await of mediaResp.arrayBuffer()
GetMedia(r, media) ==
    /\ reqs[r].kind = "GET" /\ reqs[r].pc = "media"
    /\ LET q == [reqs[r] EXCEPT !.media = media]
       IN reqs' = [reqs EXCEPT ![r] =
            IF media.kind = "reject" THEN Throw(q)
            ELSE IF ~Ok(media.status)
            THEN Return(q, ErrorResp(502, "Failed to fetch photo"))
            ELSE [q EXCEPT !.pc = "mediabytes"]]
    /\ UNCHANGED <<now, GOOGLE_KEY, buckets, rl, calls>>

\* lines 229-237 and 246-254: mediaResp.arrayBuffer() settles
GetMediaBytes(r, body) ==
    /\ reqs[r].kind = "GET" /\ reqs[r].pc = "mediabytes"
    /\ LET q == [reqs[r] EXCEPT !.media.body = body]
       IN reqs' = [reqs EXCEPT ![r] =
            IF body = "reject" THEN Throw(q)
            ELSE Return(q, ImageResp(ContentType(q.media.ctype), "media body"))]
    /\ UNCHANGED <<now, GOOGLE_KEY, buckets, rl, calls>>

----------------------------------------------------------------------------
(* Specifications *)

\* The handlers, serving requests one after another while the clock stands
Next ==
    \E r \in ReqIds :
        \/ \E hdr \in HeaderInputs : PostStart(r, hdr)
        \/ \E body \in BodyInputs : PostBody(r, body)
        \/ \E geo \in GeoInputs : PostGeocode(r, geo)
        \/ \E data \in GeoDataInputs : PostGeocodeJson(r, data)
        \/ \E det \in DetInputs : PostDetails(r, det)
        \/ \E body \in DetTextInputs : PostDetailsText(r, body)
        \/ \E body \in DetJsonInputs : PostDetailsJson(r, body)
        \/ \E hdr \in HeaderInputs, query \in QueryInputs : GetStart(r, hdr, query)
        \/ \E photo \in PhotoInputs : GetPhoto(r, photo)
        \/ \E data \in PhotoJsonInputs : GetPhotoJson(r, data)
        \/ \E body \in BytesInputs : GetPhotoBytes(r, body)
        \/ \E media \in MediaInputs : GetMedia(r, media)
        \/ \E body \in BytesInputs : GetMediaBytes(r, body)

Spec == Init /\ [][Next]_vars

\* The rate limiter alone, called over time
NextRL ==
    \/ Tick
    \/ \E hdr \in HeaderInputs : RateLimitCall(hdr)

\* rateLimit does not read the credential: one value of it is enough here
InitRL == Init /\ GOOGLE_KEY = "key"

SpecRL == InitRL /\ [][NextRL]_vars

\* Both endpoints open to two requests at a time while the clock stands: a
\* lookup waits for its body, which does not parse; a photo request names no
\* photo.
GateReqIds == {"r1", "r2"}

GateBodyInputs == { Body("invalid", UndefStr, UndefNum) }

GateQueryInputs == { Query(NullStr, NullStr, NullStr) }

InitGate ==
    /\ now = 0
    /\ GOOGLE_KEY \in {"key", "", Undefined}
    /\ buckets = <<>>
    /\ rl = [ip |-> "unknown", at |-> 0, ret |-> Null]
    /\ calls = [i \in ClientIds |-> <<>>]
    /\ reqs = [r \in GateReqIds |-> IdleReq]

NextGate ==
    \E r \in GateReqIds :
        \/ \E hdr \in HeaderInputs : PostStart(r, hdr)
        \/ \E body \in GateBodyInputs : PostBody(r, body)
        \/ \E hdr \in HeaderInputs, query \in GateQueryInputs : GetStart(r, hdr, query)

SpecGate == InitGate /\ [][NextGate]_vars

\* Requests of one client in flight together while the clock advances: the
\* handlers suspend at each await and resume in any order.
MaxConcCalls == 3

ConcReqIds == {"r1", "r2"}

ConcHeaderInputs == { [xff |-> <<"a">>, ip |-> Undefined] }

ConcBodyInputs == { Body("object", Str(ADDRESS), UndefNum) }

ConcGeoInputs == { Geo("response", 200), Geo("response", 500) }

ConcGeoDataInputs == { GeoData("value", TRUE, <<Res("ChIJ")>>) }

ConcDetInputs == { Det("response", 200, Undefined), Det("response", 500, Undefined) }

ConcDetTextInputs == { DetBody("text", "backend error", Null, Undefined) }

ConcDetJsonInputs == { DetBody("json", "", PLACE, Undefined) }

ConcQueryInputs == { Query(Str(PLACES_PREFIX \o <<"x">>), NullStr, NullStr) }

ConcPhotoInputs ==
    { Photo("response", 200, Str(APPLICATION_JSON), Null),
      Photo("response", 302, NullStr, MEDIA_URL),
      Photo("response", 200, Str(IMAGE_PNG), Null) }

ConcPhotoJsonInputs == { PhotoBody("json", MEDIA_URL) }

ConcBytesInputs == {"bytes"}

ConcMediaInputs == { Media("response", 200, Str(IMAGE_JPEG)) }

ConcCanCall(hdr) == Len(calls[getIp(hdr)]) < MaxConcCalls

InitConc ==
    /\ now = 0
    /\ GOOGLE_KEY = "key"
    /\ buckets = <<>>
    /\ rl = [ip |-> "unknown", at |-> 0, ret |-> Null]
    /\ calls = [i \in ClientIds |-> <<>>]
    /\ reqs = [r \in ConcReqIds |-> IdleReq]

NextConc ==
    \/ Tick
    \/ \E r \in ConcReqIds :
        \/ \E hdr \in ConcHeaderInputs : ConcCanCall(hdr) /\ PostStart(r, hdr)
        \/ \E body \in ConcBodyInputs : PostBody(r, body)
        \/ \E geo \in ConcGeoInputs : PostGeocode(r, geo)
        \/ \E data \in ConcGeoDataInputs : PostGeocodeJson(r, data)
        \/ \E det \in ConcDetInputs : PostDetails(r, det)
        \/ \E body \in ConcDetTextInputs : PostDetailsText(r, body)
        \/ \E body \in ConcDetJsonInputs : PostDetailsJson(r, body)
        \/ \E hdr \in ConcHeaderInputs, query \in ConcQueryInputs :
               ConcCanCall(hdr) /\ GetStart(r, hdr, query)
        \/ \E photo \in ConcPhotoInputs : GetPhoto(r, photo)
        \/ \E data \in ConcPhotoJsonInputs : GetPhotoJson(r, data)
        \/ \E body \in ConcBytesInputs : GetPhotoBytes(r, body)
        \/ \E media \in ConcMediaInputs : GetMedia(r, media)
        \/ \E body \in ConcBytesInputs : GetMediaBytes(r, body)

SpecConc == InitConc /\ [][NextConc]_vars

----------------------------------------------------------------------------
(* Properties *)

Range(q) == { q[i] : i \in 1..Len(q) }

\* how many rateLimit calls of a client lie in the window that ends at a time
CallsInWindow(ip, at) ==
    Cardinality({ i \in 1..Len(calls[ip]) : at - calls[ip][i] < WINDOW_MS })

NoUpstreamCall(q) ==
    q.geocodeCalls = 0 /\ q.detailsCalls = 0 /\ q.photoCalls = 0 /\ q.mediaCalls = 0

\* C1: the latest rateLimit call, made at time rl.at for client rl.ip, was
\* rejected if and only if more than MAX_REQUESTS calls of that client,
\* admitted or rejected and this one included, lie less than WINDOW_MS before
\* rl.at; calls WINDOW_MS or more in the past do not count.
C1_RejectedIffOverLimit ==
    (rl.ret # Null) <=> (CallsInWindow(rl.ip, rl.at) > MAX_REQUESTS)

\* a rejection while the client also has a call that has left the window
C1_Witness ==
    /\ rl.ret = RATE_LIMIT_MSG
    /\ \E i \in 1..Len(calls[rl.ip]) : rl.at - calls[rl.ip][i] >= WINDOW_MS

\* C2: a request of either handler whose rateLimit call was rejected has
\* returned 429 and has made no upstream call of any kind.
C2_RejectedMakesNoCall ==
    \A r \in ReqIds :
        reqs[r].kind \in {"POST", "GET"} /\ reqs[r].rl # Null =>
            /\ reqs[r].pc = "done"
            /\ reqs[r].resp.status = 429
            /\ NoUpstreamCall(reqs[r])

\* a photo request carrying a well-formed resource name that was rejected
C2_Witness ==
    \E r \in ReqIds :
        /\ reqs[r].kind = "GET" /\ reqs[r].rl = RATE_LIMIT_MSG
        /\ reqs[r].resp.status = 429
        /\ Coalesce(reqs[r].query) = Str(PLACES_PREFIX \o <<"x">>)

\* the body of a lookup request breaks the schema: it is not an object, its
\* address is not a string with a character other than a space, or its
\* selectedIndex is present and not a non-negative integer
BodyBreaksSchema(body) ==
    \/ body.json # "object"
    \/ body.address.t # "string"
    \/ \A i \in 1..Len(body.address.s) : body.address.s[i] = " "
    \/ /\ body.selectedIndex.t # "undefined"
       /\ ~ /\ body.selectedIndex.t = "number"
            /\ \E k \in 0..(MaxCands + 1) :
                   body.selectedIndex.n = k * body.selectedIndex.d

\* C3: POST gates in the order rate limit, credential, body.  A rejected
\* request has returned 429; an admitted one without credential has returned
\* 500; a request whose body has been read has returned 400 exactly when it
\* was admitted with the credential set and the body is unparsable or breaks
\* the schema.  In the three cases no upstream call was made and the
\* request's timestamp is in its client's bucket.
C3_GateOrder ==
    \A r \in ReqIds :
        LET q == reqs[r] IN
        q.kind = "POST" =>
            /\ q.rl # Null => q.pc = "done" /\ q.resp.status = 429
            /\ q.rl = Null /\ ~Truthy(GOOGLE_KEY) =>
                   q.pc = "done" /\ q.resp.status = 500
            /\ q.resp.status = 400 <=>
                   /\ q.rl = Null /\ Truthy(GOOGLE_KEY)
                   /\ q.body.json # "none"
                   /\ q.body.json = "invalid" \/ BodyBreaksSchema(q.body)
            /\ q.body.json # "none" => q.rl = Null /\ Truthy(GOOGLE_KEY)
            /\ q.resp.status \in {429, 500, 400} =>
                   /\ NoUpstreamCall(q)
                   /\ q.ip \in DOMAIN buckets
                   /\ q.at \in Range(buckets[q.ip])

\* an admitted, configured lookup whose address is only spaces returned 400
C3_Witness ==
    \E r \in ReqIds :
        /\ reqs[r].kind = "POST" /\ reqs[r].resp.status = 400
        /\ reqs[r].body.json = "object"
        /\ reqs[r].body.address = Str(<<" ">>)

\* the geocoding call of a request succeeded with no result: its body is a
\* JSON value other than null whose results are no array, or an empty one
GeoMatchedNothing(q) ==
    /\ q.geo.kind = "response"
    /\ q.geo.status >= 200 /\ q.geo.status <= 299
    /\ q.geo.json = "value"
    /\ ~q.geo.isArray \/ q.geo.results = <<>>

\* C4: a lookup whose geocoding call succeeded with zero results has returned
\* 200 with no candidate, selectedIndex 0, a null place and warnings that hold
\* the no-match message, and it never called place details.
C4_NoMatchIsSuccess ==
    \A r \in ReqIds :
        reqs[r].kind = "POST" /\ GeoMatchedNothing(reqs[r]) =>
            /\ reqs[r].pc = "done"
            /\ reqs[r].resp.status = 200
            /\ reqs[r].resp.candidates = <<>>
            /\ reqs[r].resp.selectedIndex = 0
            /\ reqs[r].resp.place = Null
            /\ reqs[r].resp.warnings # <<>>
            /\ W_NO_MATCH \in Range(reqs[r].resp.warnings)
            /\ reqs[r].detailsCalls = 0

\* a lookup asking for index 1 whose geocoding call returned an empty array
C4_Witness ==
    \E r \in ReqIds :
        /\ reqs[r].kind = "POST" /\ reqs[r].pc = "done"
        /\ reqs[r].geo.status = 200 /\ reqs[r].geo.json = "value"
        /\ reqs[r].geo.isArray /\ reqs[r].geo.results = <<>>
        /\ reqs[r].body.selectedIndex = Num(1, 1)
        /\ reqs[r].geocodeCalls = 1

\* C5: in a lookup response with candidates, selectedIndex lies in
\* [0, candidates.length); it is the index the caller supplied when that lies
\* in the range, and 0 when none was supplied or it lies outside the range.
C5_SelectedIndexInRange ==
    \A r \in ReqIds :
        LET q == reqs[r]
            n == Len(q.resp.candidates)
            sel == q.body.selectedIndex
        IN q.kind = "POST" /\ q.pc = "done" /\ n > 0 =>
            /\ q.resp.selectedIndex >= 0 /\ q.resp.selectedIndex < n
            /\ sel.t = "number" /\ sel.n >= 0 /\ sel.n < n =>
                   q.resp.selectedIndex = sel.n
            /\ sel.t = "undefined" \/ sel.n < 0 \/ sel.n >= n =>
                   q.resp.selectedIndex = 0

\* the caller supplied the index just past the end of two or more candidates
C5_Witness ==
    \E r \in ReqIds :
        /\ reqs[r].kind = "POST" /\ reqs[r].pc = "done"
        /\ Len(reqs[r].resp.candidates) >= 2
        /\ reqs[r].body.selectedIndex.t = "number"
        /\ reqs[r].body.selectedIndex.n = Len(reqs[r].resp.candidates)
        /\ reqs[r].resp.selectedIndex = 0

\* the place-details call of a request failed: a response that is not a
\* success, whose text has been awaited, or an error thrown by the call, be
\* it by its fetch or by the read of a body that is not JSON
DetailsFailed(q) ==
    \/ q.det.kind = "reject"
    \/ /\ q.det.kind = "response" /\ q.det.body # "none"
       /\ q.det.status < 200 \/ q.det.status > 299
    \/ /\ q.det.kind = "response" /\ q.det.body = "reject"
       /\ q.det.status >= 200 /\ q.det.status <= 299

\* C6: a lookup whose place-details call failed has returned 200 with every
\* candidate of the geocoding result, the selected index, a null place, and
\* its warnings are those gathered before the call followed by exactly one
\* more, which is none of the fixed messages.
C6_DetailsFailureIsWarning ==
    \A r \in ReqIds :
        LET q == reqs[r]
            before == IF Len(q.geo.results) > 1 THEN <<W_MULTIPLE>> ELSE <<>>
        IN q.kind = "POST" /\ DetailsFailed(q) =>
            /\ q.pc = "done"
            /\ q.resp.status = 200
            /\ Len(q.resp.candidates) = Len(q.geo.results)
            /\ \A i \in 1..Len(q.geo.results) :
                   \/ q.resp.candidates[i].place_id = q.geo.results[i].place_id
                   \/ /\ q.geo.results[i].place_id = Undefined
                      /\ q.resp.candidates[i].place_id = Null
            /\ q.resp.selectedIndex = q.idx
            /\ q.resp.candidates[q.idx + 1].place_id = "ChIJ"
            /\ q.resp.place = Null
            /\ Len(q.resp.warnings) = Len(before) + 1
            /\ SubSeq(q.resp.warnings, 1, Len(before)) = before
            /\ q.resp.warnings[Len(before) + 1] \notin
                   {W_SOURCE, W_MULTIPLE, W_NO_PLACE_ID, W_NO_MATCH}

\* the call answered 200 with a body that is not JSON, for the second of two
\* candidates
C6_Witness ==
    \E r \in ReqIds :
        /\ reqs[r].kind = "POST" /\ reqs[r].pc = "done"
        /\ reqs[r].det.status = 200 /\ reqs[r].det.body = "reject"
        /\ Len(reqs[r].resp.candidates) = 2
        /\ reqs[r].resp.selectedIndex = 1
        /\ reqs[r].resp.status = 200

\* C7: a lookup whose geocoding call returned a non-success status has
\* returned 502 with an error that carries the status, no candidate list, and
\* it never called place details.
C7_GeocodeFailureIs502 ==
    \A r \in ReqIds :
        LET q == reqs[r] IN
        /\ q.kind = "POST" /\ q.geo.kind = "response"
        /\ q.geo.status < 200 \/ q.geo.status > 299
        => /\ q.pc = "done"
           /\ q.resp.status = 502
           /\ q.resp.error = "Geocoding failed with status " \o ToString(q.geo.status)
           /\ q.resp.candidates = <<>> /\ q.candidates = <<>>
           /\ q.detailsCalls = 0

\* the geocoding call answered 403
C7_Witness ==
    \E r \in ReqIds :
        /\ reqs[r].kind = "POST" /\ reqs[r].pc = "done"
        /\ reqs[r].geo.kind = "response" /\ reqs[r].geo.status = 403
        /\ reqs[r].resp.status = 502

\* the resource name of a photo request is missing or lacks the prefix
NameLacksPrefix(name) ==
    \/ name.t = "null"
    \/ Len(name.s) < Len(PLACES_PREFIX)
    \/ \E i \in 1..Len(PLACES_PREFIX) : name.s[i] # PLACES_PREFIX[i]

\* C8: a photo request whose resource name is missing or does not start with
\* "places/" has been refused, with 400 when it was admitted and the
\* credential is set, and has made neither the photo-media call nor a
\* secondary fetch.
C8_BadNameMakesNoCall ==
    \A r \in ReqIds :
        LET q == reqs[r] IN
        q.kind = "GET" /\ NameLacksPrefix(Coalesce(q.query)) =>
            /\ q.pc = "done"
            /\ q.resp.status \in {400, 429, 500}
            /\ q.rl = Null /\ Truthy(GOOGLE_KEY) => q.resp.status = 400
            /\ q.photoCalls = 0 /\ q.mediaCalls = 0

\* a name that holds the prefix, but not at its start, was refused with 400
C8_Witness ==
    \E r \in ReqIds :
        /\ reqs[r].kind = "GET" /\ reqs[r].resp.status = 400
        /\ Len(reqs[r].photoName.s) > Len(PLACES_PREFIX)
        /\ Head(reqs[r].photoName.s) = "n"

\* the secondary fetch of a request returned a success
MediaSucceeded(q) ==
    q.media.kind = "response" /\ q.media.status >= 200 /\ q.media.status <= 299

\* C9: every photo request that passed its gates and whose handler has ended
\* was answered 200 with image bytes or 502, never anything else, decided by
\* the photo-media response in this order:
\* (a) 2xx with a JSON content type: 200 exactly when the body names a media
\* URL and the secondary fetch of it succeeded, and without a media URL 502
\* with no secondary fetch; (b) 3xx: 200 exactly when a location is given and
\* the secondary fetch of it succeeded; (c) any other 2xx: 200 with the
\* upstream body; any other status: 502.
C9_PhotoProtocols ==
    \A r \in ReqIds :
        LET q == reqs[r]
            p == q.photo
            ok == p.status >= 200 /\ p.status <= 299
            json == /\ p.ctype.t = "string"
                    /\ \E i \in 1..Len(p.ctype.s) :
                           /\ i + Len(APPLICATION_JSON) - 1 <= Len(p.ctype.s)
                           /\ SubSeq(p.ctype.s, i, i + Len(APPLICATION_JSON) - 1)
                                  = APPLICATION_JSON
            redirect == p.status >= 300 /\ p.status <= 399
            fromMedia == q.resp.status = 200 /\ q.resp.bytes = "media body"
        IN q.kind = "GET" /\ q.pc \in {"done", "threw"} /\ q.photoCalls > 0 =>
            /\ p.kind = "response"
            /\ \/ q.resp.status = 200 /\ q.resp.bytes # Null
               \/ q.resp.status = 502 /\ q.resp.bytes = Null
            /\ ok /\ json =>
                   /\ fromMedia <=> Truthy(p.photoUri) /\ MediaSucceeded(q)
                   /\ q.resp.status = 200 => fromMedia /\ q.mediaUrl = p.photoUri
                   /\ ~Truthy(p.photoUri) => q.resp.status = 502 /\ q.mediaCalls = 0
            /\ ~ok /\ redirect =>
                   /\ fromMedia <=> Truthy(p.location) /\ MediaSucceeded(q)
                   /\ q.resp.status = 200 => fromMedia /\ q.mediaUrl = p.location
                   /\ ~Truthy(p.location) => q.mediaCalls = 0
            /\ ok /\ ~json =>
                   /\ q.resp.status = 200 /\ q.resp.bytes = "upstream body"
                   /\ q.mediaCalls = 0
            /\ ~ok /\ ~redirect => q.resp.status = 502 /\ q.mediaCalls = 0

\* C10: a response of the photo proxy carries the cache directive
\* "public, max-age=86400" if and only if its status is 200, whichever of the
\* three protocols produced it.
C10_CacheOnlyOn200 ==
    \A r \in ReqIds :
        reqs[r].kind = "GET" /\ reqs[r].pc = "done" =>
            /\ reqs[r].resp.status = 200 =>
                   reqs[r].resp.cacheControl = "public, max-age=86400"
            /\ reqs[r].resp.status # 200 => reqs[r].resp.cacheControl = Null

\* a 200 on the redirect protocol
C10_Witness ==
    \E r \in ReqIds :
        /\ reqs[r].kind = "GET" /\ reqs[r].pc = "done"
        /\ reqs[r].photo.status = 302 /\ reqs[r].mediaCalls = 1
        /\ reqs[r].resp.status = 200
        /\ reqs[r].resp.cacheControl = "public, max-age=86400"

\* C11: a lookup response with more than one candidate holds the
\* multiple-matches message among its warnings, whichever index was selected
\* and however the place-details call ended; with exactly one candidate the
\* message is absent.
C11_MultipleMatchesWarning ==
    \A r \in ReqIds :
        LET q == reqs[r] IN
        q.kind = "POST" /\ q.pc = "done" =>
            /\ Len(q.resp.candidates) > 1 => W_MULTIPLE \in Range(q.resp.warnings)
            /\ Len(q.resp.candidates) = 1 => W_MULTIPLE \notin Range(q.resp.warnings)

\* two candidates, the second selected, and a place-details call answered 404
C11_Witness ==
    \E r \in ReqIds :
        /\ reqs[r].kind = "POST" /\ reqs[r].pc = "done"
        /\ Len(reqs[r].resp.candidates) = 2
        /\ reqs[r].resp.selectedIndex = 1
        /\ reqs[r].det.status = 404
        /\ Head(reqs[r].resp.warnings) = W_MULTIPLE

\* the candidate a lookup selected has no place identifier: the geocoding
\* result at the selected index has none, or an empty one
SelectedHasNoPlaceId(q) ==
    /\ q.geo.kind = "response" /\ q.geo.isArray /\ q.geo.results # <<>>
    /\ q.geo.status >= 200 /\ q.geo.status <= 299
    /\ \A i \in 1..Len(q.geo.results) : ~q.geo.results[i].isNull
    /\ LET sel == q.body.selectedIndex
           at == IF sel.t = "number" /\ sel.n >= 0 /\ sel.n < Len(q.geo.results)
                 THEN sel.n + 1 ELSE 1
       IN q.geo.results[at].place_id \in {Undefined, Null, ""}

\* C13: a lookup whose selected candidate has no place identifier has made no
\* place-details call and has returned 200 with a null place and, as its last
\* warning, that place details are unavailable; the data-source caveat is not
\* among its warnings.
C13_NoPlaceIdNoDetailsCall ==
    \A r \in ReqIds :
        LET q == reqs[r] IN
        q.kind = "POST" /\ SelectedHasNoPlaceId(q) =>
            /\ q.pc = "done"
            /\ q.detailsCalls = 0
            /\ q.resp.status = 200
            /\ q.resp.place = Null
            /\ q.resp.warnings # <<>>
            /\ q.resp.warnings[Len(q.resp.warnings)] = W_NO_PLACE_ID
            /\ W_SOURCE \notin Range(q.resp.warnings)

\* the second of two candidates was selected; only the first has an identifier
C13_Witness ==
    \E r \in ReqIds :
        /\ reqs[r].kind = "POST" /\ reqs[r].pc = "done"
        /\ reqs[r].geo.results = <<Res("ChIJ"), Res(Undefined)>>
        /\ reqs[r].resp.selectedIndex = 1
        /\ reqs[r].detailsCalls = 0

\* the place-details call of a request was made and succeeded: it answered
\* with a success status and a body that is JSON
DetailsSucceeded(q) ==
    /\ q.detailsCalls = 1
    /\ q.det.kind = "response" /\ q.det.status >= 200 /\ q.det.status <= 299
    /\ q.det.body = "json"

\* C14: the warnings of a lookup response hold the data-source caveat exactly
\* when the place-details call was made and succeeded.  With a single
\* geocoding match that has a place identifier and a successful call, the
\* response has one candidate, selectedIndex 0, a place that is not null, the
\* caveat and no multiple-matches message.
C14_CaveatIffDetailsSucceeded ==
    \A r \in ReqIds :
        LET q == reqs[r] IN
        q.kind = "POST" /\ q.pc = "done" =>
            /\ W_SOURCE \in Range(q.resp.warnings) <=> DetailsSucceeded(q)
            /\ DetailsSucceeded(q) /\ Len(q.geo.results) = 1 =>
                   /\ Len(q.resp.candidates) = 1
                   /\ q.resp.selectedIndex = 0
                   /\ q.resp.place # Null
                   /\ q.resp.warnings = <<W_SOURCE>>

\* C18: no request repeats an upstream call.  A lookup makes at most one
\* geocoding call and at most one place-details call, the latter only once
\* the geocoding call has succeeded with a result; a photo request makes at
\* most one photo-media call and at most one secondary fetch, the latter only
\* once the photo-media call has returned a response.
C18_NoRetry ==
    \A r \in ReqIds :
        LET q == reqs[r] IN
        /\ q.geocodeCalls <= 1 /\ q.detailsCalls <= 1
        /\ q.photoCalls <= 1 /\ q.mediaCalls <= 1
        /\ q.kind # "POST" => q.geocodeCalls = 0 /\ q.detailsCalls = 0
        /\ q.kind # "GET" => q.photoCalls = 0 /\ q.mediaCalls = 0
        /\ q.detailsCalls = 1 =>
               /\ q.geocodeCalls = 1
               /\ q.geo.kind = "response"
               /\ q.geo.status >= 200 /\ q.geo.status <= 299
               /\ q.geo.json = "value" /\ q.geo.isArray /\ q.geo.results # <<>>
        /\ q.mediaCalls = 1 =>
               q.photoCalls = 1 /\ q.photo.kind = "response"
        /\ q.geo.kind # "none" => q.geocodeCalls = 1
        /\ q.det.kind # "none" => q.detailsCalls = 1
        /\ q.photo.kind # "none" => q.photoCalls = 1
        /\ q.media.kind # "none" => q.mediaCalls = 1

\* a lookup whose place-details call answered 500 and was not made again
C18_Witness ==
    \E r \in ReqIds :
        /\ reqs[r].kind = "POST" /\ reqs[r].pc = "done"
        /\ reqs[r].det.status = 500
        /\ reqs[r].geocodeCalls = 1 /\ reqs[r].detailsCalls = 1

\* the time of the latest rateLimit call of a client
LastCall(ip) == calls[ip][Len(calls[ip])]

\* a rejected call is stored: the client of a rejected call holds more than
\* MAX_REQUESTS timestamps, the last of them the time of the rejected call
RejectedIsRecorded ==
    rl.ret = RATE_LIMIT_MSG =>
        /\ rl.ip \in DOMAIN buckets
        /\ Len(buckets[rl.ip]) > MAX_REQUESTS
        /\ buckets[rl.ip][Len(buckets[rl.ip])] = rl.at

\* a client that holds more than MAX_REQUESTS timestamps, the latest
\* MAX_REQUESTS of them still in the window, calls again: the call is
\* rejected and stored in its turn
ThrottledStaysRejected ==
    \A ip \in ClientIds :
        LET b == BucketGet(ip) IN
        /\ calls'[ip] # calls[ip]
        /\ Len(b) > MAX_REQUESTS
        /\ now - b[Len(b) - MAX_REQUESTS + 1] < WINDOW_MS
        => /\ rl'.ip = ip /\ rl'.ret = RATE_LIMIT_MSG
           /\ Len(buckets'[ip]) > MAX_REQUESTS
           /\ buckets'[ip][Len(buckets'[ip])] = now

\* C16: every admission check is recorded, the rejected ones too: after a
\* rejected call the client's sequence ends with that call's time and is
\* longer than MAX_REQUESTS, and a throttled client that calls again while its
\* latest MAX_REQUESTS calls are in the window is rejected again.
C16_RejectedCallsCount ==
    [](RejectedIsRecorded) /\ [][ThrottledStaysRejected]_vars

\* a second rejection in a row, later than the first, both stored
C16_Witness ==
    /\ rl.ret = RATE_LIMIT_MSG
    /\ Len(buckets[rl.ip]) = MAX_REQUESTS + 2
    /\ buckets[rl.ip][MAX_REQUESTS + 1] < rl.at

\* C17: once a client has called rateLimit, and until it calls again, with
\* at the time of its latest call: every timestamp t stored for it has
\* 0 <= at - t < WINDOW_MS, the stored sequence is in non-decreasing order
\* and its last element is at.
C17_StoredWithinWindow ==
    \A ip \in ClientIds :
        calls[ip] # <<>> =>
            /\ ip \in DOMAIN buckets
            /\ LET b == buckets[ip]
                   at == LastCall(ip)
               IN /\ b # <<>>
                  /\ b[Len(b)] = at
                  /\ \A i \in 1..Len(b) : 0 <= at - b[i] /\ at - b[i] < WINDOW_MS
                  /\ \A i \in 1..Len(b) : \A j \in i..Len(b) : b[i] <= b[j]
                  /\ ip = rl.ip => at = rl.at

\* the latest call purged its client's oldest timestamp and kept a newer one
C17_Witness ==
    /\ rl.ip \in DOMAIN buckets
    /\ Len(buckets[rl.ip]) = 2
    /\ buckets[rl.ip][1] < buckets[rl.ip][2]
    /\ Len(calls[rl.ip]) = 3
    /\ calls[rl.ip][1] < calls[rl.ip][2]

\* the latest call of a client came WINDOW_MS or more after its previous one
AfterSilence(ip) ==
    /\ Len(calls[ip]) >= 2
    /\ calls[ip][Len(calls[ip])] - calls[ip][Len(calls[ip]) - 1] >= WINDOW_MS

\* C20: a call a client makes WINDOW_MS or more after its previous call,
\* however many of its earlier calls were rejected, is admitted, and the
\* client's stored sequence is then that call's time alone.
C20_ThrottlingEnds ==
    /\ \A ip \in ClientIds : AfterSilence(ip) => buckets[ip] = <<LastCall(ip)>>
    /\ AfterSilence(rl.ip) => rl.ret = Null

\* a client rejected at its 31st call is admitted a window later
C20_Witness ==
    /\ AfterSilence(rl.ip)
    /\ Len(calls[rl.ip]) = MAX_REQUESTS + 2
    /\ calls[rl.ip][MAX_REQUESTS + 1] = calls[rl.ip][1]
    /\ rl.ret = Null
    /\ buckets[rl.ip] = <<rl.at>>

\* a handler is past its rate-limit gate, suspended at one of its awaits
PastGate(q) ==
    q.pc \in {"json", "geocode", "geojson", "details", "dettext", "detjson",
              "photo", "photojson", "photobytes", "media", "mediabytes"}

\* what one step leaves alone in the rate limiter's map
FrameOfStep ==
    /\ DOMAIN buckets \subseteq DOMAIN buckets'
    /\ \A ip \in ClientIds :
           calls'[ip] = calls[ip] =>
               /\ BucketGet(ip)' = BucketGet(ip)
               /\ RateLimitResult(ip)' = RateLimitResult(ip)
    /\ \A ip \in ClientIds :
           calls'[ip] # calls[ip] =>
               \E r \in DOMAIN reqs :
                   /\ Free(r)
                   /\ reqs'[r].ip = ip /\ reqs'[r].at = now
    /\ \A r \in DOMAIN reqs :
           PastGate(reqs[r]) /\ reqs'[r] # reqs[r] => buckets' = buckets

\* C19: a request changes no rate-limiter entry but that of its own client:
\* a step in which a client makes no rateLimit call leaves that client's
\* stored sequence and its next admit/reject decision as they were, a step of
\* a handler past its gate leaves the whole map as it was, and no step
\* removes an entry.
C19_OnlyOwnEntryChanges == [][FrameOfStep]_vars

\* a lookup of one client is past its gate while the other client, which has
\* called too, holds an entry of its own
C19_Witness ==
    \E r \in DOMAIN reqs :
        /\ reqs[r].pc = "details"
        /\ DOMAIN buckets = ClientIds
        /\ \A ip \in ClientIds \ {reqs[r].ip} :
               Len(buckets[ip]) = MAX_REQUESTS /\ rl.ip = reqs[r].ip

\* a request enters a handler in this step: its slot was free and is taken
Enters(r) == Free(r) /\ reqs'[r] # reqs[r]

\* the request that enters, a lookup or a photo request alike, adds its time
\* to the one history of its client and is answered 429 exactly when more
\* than MAX_REQUESTS calls of that client, of both kinds, are in the window
EnteringIsCounted ==
    \A r \in DOMAIN reqs :
        Enters(r) =>
            LET q == reqs'[r] IN
            /\ q.kind \in {"POST", "GET"}
            /\ calls'[q.ip] = Append(calls[q.ip], now)
            /\ buckets'[q.ip] = Append(SelectSeq(BucketGet(q.ip),
                                    LAMBDA t : now - t < WINDOW_MS), now)
            /\ (q.pc = "done" /\ q.resp.status = 429)
                   <=> Cardinality({ i \in 1..Len(calls'[q.ip]) :
                           now - calls'[q.ip][i] < WINDOW_MS }) > MAX_REQUESTS

\* C12: the lookup and the photo proxy are gated by one rate-limiter state:
\* every entering request of either kind is counted in the same window of its
\* client, and is rejected with 429 exactly when that window then holds more
\* than MAX_REQUESTS calls, whichever handlers made them.
C12_OneWindowForBothEndpoints == [][EnteringIsCounted]_vars

\* a photo request is rejected as its client's 31st call although no more
\* than 30 photo requests were made: an admitted lookup of the same client
\* is still waiting for its body
C12_Witness ==
    \E r1, r2 \in DOMAIN reqs :
        /\ reqs[r1].kind = "POST" /\ reqs[r1].pc = "json"
        /\ reqs[r2].kind = "GET" /\ reqs[r2].resp.status = 429
        /\ reqs[r2].ip = reqs[r1].ip
        /\ Len(calls[reqs[r2].ip]) = MAX_REQUESTS + 1
        /\ rl.ret = RATE_LIMIT_MSG

\* the times of the calls a client made less than WINDOW_MS before its
\* latest call, in the order they were made
EnteredInWindow(ip) ==
    SelectSeq(calls[ip], LAMBDA t : LastCall(ip) - t < WINDOW_MS)

\* C15: with requests of one client in flight together and resumed in any
\* order, no update of the rate limiter is lost: the sequence stored for the
\* client holds one timestamp for each request that entered a handler within
\* the window of the client's latest call, those of the requests still in
\* flight among them.
C15_NoLostUpdate ==
    /\ \A ip \in ClientIds :
           calls[ip] # <<>> => BucketGet(ip) = EnteredInWindow(ip)
    /\ \A r \in DOMAIN reqs :
           LET q == reqs[r] IN
           q.kind \in {"POST", "GET"} /\ LastCall(q.ip) - q.at < WINDOW_MS =>
               q.at \in Range(BucketGet(q.ip))
    /\ \A r1, r2 \in DOMAIN reqs :
           /\ r1 # r2
           /\ reqs[r1].kind # "none" /\ reqs[r2].kind # "none"
           /\ reqs[r1].ip = reqs[r2].ip
           /\ reqs[r1].at - reqs[r2].at < WINDOW_MS
           /\ reqs[r2].at - reqs[r1].at < WINDOW_MS
           => Len(BucketGet(reqs[r1].ip)) >= 2

\* a lookup and a photo request of one client, entered at different times,
\* are both suspended at an upstream call, the earlier one further along
C15_Witness ==
    \E r1, r2 \in DOMAIN reqs :
        /\ reqs[r1].pc = "details" /\ reqs[r2].pc = "photo"
        /\ reqs[r1].ip = reqs[r2].ip
        /\ reqs[r1].at < reqs[r2].at
        /\ buckets[reqs[r1].ip] = <<reqs[r1].at, reqs[r2].at>>
        /\ now > reqs[r2].at

====
